---- MODULE Spec2Model ----
(***************************************************************************)
(* NOAA weather client (NOAAApiForHA), its proxy (NOAAProxy) and the host  *)
(* coordinator's update cycle, as a state machine.  One client coroutine   *)
(* runs at a time; its await points are the positions of task.pc.          *)
(* Times are whole seconds.  Python values are records with a field py.    *)
(* The period parser (DailyForecast), the grid lookup (GridWeather) and the *)
(* functions of noaa_utils are also run on their own, over inputs drawn    *)
(* from bounded sets; lookup holds the input and the result of such a run. *)
(***************************************************************************)
EXTENDS Integers, Sequences, FiniteSets, TLC

VARIABLES now, api, task, host, hist, lookup

vars == <<now, api, task, host, hist, lookup>>

(* ---------------- program constants ---------------- *)
MIN_REFRESH_INTERVAL == 1800
DEFAULT_REFRESH_INTERVAL == 43200
UPDATE_TIMEOUT == 20

(* ---------------- bounds of the model ---------------- *)
MaxTicks == 2
MaxFetches == 2
MaxCalls == 3
MaxUpdates == 1
MaxPeriods == 3
MaxSeries == 2
MaxHostFetches == 3
IdleDeltas == {10, 1800}
AwaitDeltas == {20}
Intervals == {-60, 0}

(* ---------------- python values ---------------- *)
NoneV == [py |-> "None"]
EmptyDict == [py |-> "dict", keys |-> {}]
Truthy(v) == v.py # "None" /\ v.keys # {}

Num(n) == [t |-> "num", n |-> n, w |-> ""]
Word(s) == [t |-> "word", n |-> 0, w |-> s]
Str(items) == [py |-> "str", items |-> items]
(* a string kept as its characters, an int, a float in thousandths *)
Text(chars) == [py |-> "str", chars |-> chars]
IntV(v) == [py |-> "int", v |-> v]
Float(milli) == [py |-> "float", milli |-> milli]
(* an ISO 8601 time string and what it denotes, or a string that is no ISO time *)
IsoTime(t) == [py |-> "str", iso |-> TRUE, time |-> t]
BadTime == [py |-> "str", iso |-> FALSE, time |-> 0]
(* probabilityOfPrecipitation: a mapping with or without the key value *)
PopDict(v) == [py |-> "dict", keys |-> {"unitCode", "value"}, value |-> v]
PopNoValue == [py |-> "dict", keys |-> {"unitCode"}, value |-> NoneV]

(* one period of a forecast payload *)
NoaaPeriod(n, st, temp, unit, pop, ws) ==
    [py |-> "dict", number |-> n, startTime |-> st, temperature |-> temp,
     temperatureUnit |-> unit, probabilityOfPrecipitation |-> pop, windSpeed |-> ws]
Period(n, ws) ==
    NoaaPeriod(n, IsoTime(3600 * n), IntV(50), Text(<<"F">>), PopDict(IntV(30)), ws)

(* point metadata responses: which endpoint URLs properties names *)
MetaDict(props, urls) == [py |-> "dict", keys |-> {"properties"}, properties |-> props, urls |-> urls]
MetaGood == MetaDict("dict", {"forecast", "forecastHourly", "forecastGridData"})
MetaNoUrls == MetaDict("dict", {})
MetaBad == MetaDict("null", {})

(* period forecast responses *)
PayloadA == [py |-> "dict", keys |-> {"properties"}, periods |-> <<Period(1, Str(<<Num(10), Word("mph")>>)), Period(2, Str(<<Num(5), Word("kph")>>))>>]
PayloadB == [py |-> "dict", keys |-> {"type"}, periods |-> <<>>]

(* grid responses *)
GridA == [py |-> "dict", keys |-> {"properties"}, id |-> 1]

(* what the HTTP layer delivers for one request *)
Transport == [kind |-> "exception", status |-> 0, body |-> NoneV]
Http(status, body) == [kind |-> "http", status |-> status, body |-> body]
NotSent == [kind |-> "notsent", status |-> 0, body |-> NoneV]

(* ---------------- python built-ins ---------------- *)
(* int(a / b) for b > 0: the quotient truncated toward zero *)
Trunc(a, b) == IF a >= 0 THEN a \div b ELSE -((-a) \div b)

(* float(v): ok is FALSE when it raises ValueError or TypeError *)
PyFloat(v) ==
    CASE v.py = "int" -> [ok |-> TRUE, milli |-> v.v * 1000]
      [] v.py = "float" -> [ok |-> TRUE, milli |-> v.milli]
      [] v.py = "str" -> IF Len(v.items) = 1 /\ v.items[1].t = "num"
                         THEN [ok |-> TRUE, milli |-> v.items[1].n * 1000]
                         ELSE [ok |-> FALSE, milli |-> 0]
      [] OTHER -> [ok |-> FALSE, milli |-> 0]

(* int(v): ok is FALSE when it raises ValueError or TypeError *)
PyInt(v) ==
    CASE v.py = "int" -> [ok |-> TRUE, v |-> v.v]
      [] v.py = "float" -> [ok |-> TRUE, v |-> Trunc(v.milli, 1000)]
      [] v.py = "str" -> IF Len(v.items) = 1 /\ v.items[1].t = "num"
                         THEN [ok |-> TRUE, v |-> v.items[1].n]
                         ELSE [ok |-> FALSE, v |-> 0]
      [] OTHER -> [ok |-> FALSE, v |-> 0]

(* ---------------- noaa_utils ---------------- *)
(* iso_to_float_time without a timezone; raised when fromisoformat raises *)
iso_to_float_time(iso_time) ==
    CASE iso_time.py = "None" -> [raised |-> FALSE, time |-> 0]
      [] iso_time.py = "str" -> [raised |-> ~iso_time.iso, time |-> iso_time.time]
      [] OTHER -> [raised |-> TRUE, time |-> 0]

(* the conversion with int() applied before the scaling by 100 *)
convert_F_to_C_WholeDegrees(temperature) == Trunc((temperature - 32000) * 5, 9000) * 1000

(* temperatures are thousandths of a degree; the result has two decimals. For a  *)
(* whole number of degrees the float arithmetic is exact wherever the hundredths *)
(* are a whole number, so int() sees the exact value                             *)
convert_F_to_C(temperature) == Trunc((temperature - 32000) * 5, 90) * 10

Sign(n) == IF n > 0 THEN 1 ELSE IF n < 0 THEN -1 ELSE 0

(* the values convert_C_to_F can give: the exact hundredths are (9t + 160000) / 50; *)
(* when they are a whole number n and some float operation on the way was inexact  *)
(* (t is no multiple of 5 degrees) the float product can fall just short of n and  *)
(* int() then gives the whole number before it, as convert_C_to_F(1) = 33.79       *)
convert_C_to_F(temperature) ==
    LET num == temperature * 9 + 160000
        n == Trunc(num, 50)
    IN  IF num % 50 # 0 \/ temperature % 5000 = 0 THEN {n * 10}
        ELSE {n * 10, (n - Sign(n)) * 10}

(* `not v` for the values a caller can hand over *)
Falsy(v) ==
    CASE v.py = "None" -> TRUE
      [] v.py = "int" -> v.v = 0
      [] v.py = "float" -> v.milli = 0
      [] v.py = "str" -> Len(v.items) = 0
      [] v.py = "list" -> Len(v.items) = 0
      [] v.py = "dict" -> v.keys = {}
      [] OTHER -> FALSE

(* an int above the largest float: int / float and int * float raise OverflowError *)
BigInt == [py |-> "bigint"]

(* what the speed is after the isinstance(speed, str) block *)
SpeedNumber(speed) ==
    IF speed.py # "str" THEN speed
    ELSE IF PyFloat(speed).ok THEN Float(PyFloat(speed).milli) ELSE IntV(0)

(* speeds are floats in thousandths of a unit; raised when an exception leaves *)
speed_miph_to_mps(speed) ==
    IF Falsy(speed) THEN [raised |-> FALSE, value |-> Float(0)]
    ELSE LET number == SpeedNumber(speed)
         IN  CASE number.py = "bigint" -> [raised |-> TRUE, value |-> NoneV]
               [] number.py \in {"int", "float"} ->
                     [raised |-> FALSE, value |-> Float(Trunc(PyFloat(number).milli * 1000, 2237))]
               [] OTHER -> [raised |-> FALSE, value |-> Float(0)]

speed_mps_to_miph(speed) ==
    IF Falsy(speed) THEN [raised |-> FALSE, value |-> Float(0)]
    ELSE LET number == SpeedNumber(speed)
         IN  CASE number.py = "bigint" -> [raised |-> TRUE, value |-> NoneV]
               [] number.py \in {"int", "float"} ->
                     [raised |-> FALSE, value |-> Float(Trunc(PyFloat(number).milli * 2237, 1000))]
               [] OTHER -> [raised |-> FALSE, value |-> Float(0)]

(* ---------------- DailyForecast / HourlyForecast ---------------- *)
CELSIUS == "°C"

(* the temperature block converting whatever the unit says *)
Temperature_ConvertsAll(period) ==
    LET value == PyFloat(period.temperature)
        unit == period.temperatureUnit
    IN  IF ~value.ok THEN NoneV
        ELSE IF unit.py # "str" THEN NoneV
        ELSE Float(convert_F_to_C(value.milli))

(* _parse_period, the temperature block: never raises *)
Temperature(period) ==
    LET value == PyFloat(period.temperature)
        unit == period.temperatureUnit
    IN  IF ~value.ok THEN NoneV
        ELSE IF unit.py # "str" THEN NoneV
        ELSE IF \E i \in 1..Len(unit.chars) : unit.chars[i] = "F"
             THEN Float(convert_F_to_C(value.milli))
             ELSE Float(value.milli)

(* _parse_period, the precipitation block: raised when .get meets a non-mapping *)
Precipitation(period) ==
    LET pop == period.probabilityOfPrecipitation
    IN  IF pop.py # "dict" THEN [raised |-> TRUE, value |-> IntV(0)]
        ELSE LET n == PyInt(IF "value" \in pop.keys THEN pop.value ELSE NoneV)
             IN  [raised |-> FALSE, value |-> IF n.ok THEN IntV(n.v) ELSE IntV(0)]

(* _parse_period, the wind speed block: raised when .split or items[0] fails *)
WindSpeed(period) ==
    LET ws == period.windSpeed
    IN  IF ws.py # "str" THEN [raised |-> TRUE, value |-> NoneV]
        ELSE IF Len(ws.items) = 0 THEN [raised |-> TRUE, value |-> NoneV]
        ELSE IF ws.items[1].t # "num" THEN [raised |-> FALSE, value |-> NoneV]
        ELSE LET value == ws.items[1].n
                 mph == \E i \in 1..Len(ws.items) : ws.items[i].t = "word" /\ ws.items[i].w = "mph"
             IN  [raised |-> FALSE,
                  value |-> IF mph THEN speed_miph_to_mps(Float(value * 1000)).value
                            ELSE Float(value * 1000)]

(* _parse_period stamping each record with its own clock reading *)
ParsePeriod_OwnClock(period, at) ==
    IF period.py # "dict" THEN [raised |-> TRUE, forecast |-> NoneV]
    ELSE LET ts == iso_to_float_time(period.startTime)
             pop == Precipitation(period)
             wind == WindSpeed(period)
         IN  [raised |-> ts.raised \/ pop.raised \/ wind.raised,
              forecast |-> [py |-> "dict", number |-> period.number,
                            last_api_update |-> at + period.number, timestamp |-> ts.time,
                            native_temperature |-> Temperature(period),
                            native_temperature_unit |-> CELSIUS,
                            precipitation_probability |-> pop.value,
                            native_wind_speed |-> wind.value]]

(* _parse_period: raised when the extraction lets an exception escape *)
ParsePeriod(period, at) ==
    IF period.py # "dict" THEN [raised |-> TRUE, forecast |-> NoneV]
    ELSE LET ts == iso_to_float_time(period.startTime)
             pop == Precipitation(period)
             wind == WindSpeed(period)
         IN  [raised |-> ts.raised \/ pop.raised \/ wind.raised,
              forecast |-> [py |-> "dict", number |-> period.number,
                            last_api_update |-> at, timestamp |-> ts.time,
                            native_temperature |-> Temperature(period),
                            native_temperature_unit |-> CELSIUS,
                            precipitation_probability |-> pop.value,
                            native_wind_speed |-> wind.value]]

(* the loop of _parse putting each new record in front of the list *)
RECURSIVE ParseFrom_Reversed(_, _, _, _)
ParseFrom_Reversed(periods, at, i, acc) ==
    IF i > Len(periods) THEN acc
    ELSE LET r == ParsePeriod(periods[i], at)
         IN  IF r.raised THEN acc
             ELSE ParseFrom_Reversed(periods, at, i + 1, <<r.forecast>> \o acc)

(* the loop of _parse going on with the next period after one that raised *)
RECURSIVE ParseFrom_Skips(_, _, _, _)
ParseFrom_Skips(periods, at, i, acc) ==
    IF i > Len(periods) THEN acc
    ELSE LET r == ParsePeriod(periods[i], at)
         IN  IF r.raised THEN ParseFrom_Skips(periods, at, i + 1, acc)
             ELSE ParseFrom_Skips(periods, at, i + 1, Append(acc, r.forecast))

RECURSIVE ParseFrom(_, _, _, _)
ParseFrom(periods, at, i, acc) ==
    IF i > Len(periods) THEN acc
    ELSE LET r == ParsePeriod(periods[i], at)
         IN  IF r.raised THEN acc
             ELSE ParseFrom(periods, at, i + 1, Append(acc, r.forecast))

(* DailyForecast(response, timestamp): __init__ and _parse *)
DailyForecast(response, timestamp) ==
    [py |-> "DailyForecast", forecast_at |-> timestamp,
     data |-> IF "properties" \notin response.keys THEN <<>>
              ELSE ParseFrom(response.periods, timestamp, 1, <<>>)]

(* HourlyForecast(response, timestamp) *)
HourlyForecast(response, timestamp) ==
    [py |-> "HourlyForecast", forecast_at |-> timestamp,
     data |-> IF "properties" \notin response.keys THEN <<>>
              ELSE ParseFrom(response.periods, timestamp, 1, <<>>)]

get_forecast(obj) == obj.data

(* ---------------- GridWeather ---------------- *)
(* an interval string: an ISO time (iso is FALSE when fromisoformat rejects it),  *)
(* then nothing (sep ""), or "/" and something that does not begin with PT (sep   *)
(* "/"), or "/PT" and a period string made of body and a last character unit      *)
Interval(iso, t, sep, body, unit) ==
    [py |-> "str", iso |-> iso, time |-> t, sep |-> sep, body |-> body, unit |-> unit]
(* validTime: an ISO time, then nothing or /PT<n><unit> *)
ValidTime(t, n, unit) ==
    IF unit = "" THEN Interval(TRUE, t, "", Str(<<>>), "")
    ELSE Interval(TRUE, t, "/PT", Str(<<Num(n)>>), unit)
GridEntry(vt, v) == [py |-> "dict", validTime |-> vt, value |-> v]
(* one quantity of a grid payload: a mapping with or without values *)
Quantity(values) == [py |-> "dict", keys |-> {"uom", "values"}, values |-> values]
QuantityNoValues == [py |-> "dict", keys |-> {"uom"}, values |-> <<>>]
(* a grid payload with the quantity temperature, or without it (q is None) *)
GridPayload(q) == [py |-> "dict", keys |-> {"properties"}, temperature |-> q]
GridNoProperties == [py |-> "dict", keys |-> {"type"}, temperature |-> NoneV]

(* noaa_utils.iso_to_float_time_and_delta(time_str, "UTC"); raised when           *)
(* fromisoformat or int() raises ValueError                                       *)
iso_to_float_time_and_delta(iso_time) ==
    LET n == PyInt(iso_time.body)
        failed == [raised |-> TRUE, start |-> 0, dt |-> 0]
    IN  IF ~iso_time.iso THEN failed
        ELSE IF iso_time.sep # "/PT" THEN [raised |-> FALSE, start |-> iso_time.time, dt |-> 0]
        ELSE CASE iso_time.unit = "H" ->
                    IF n.ok THEN [raised |-> FALSE, start |-> iso_time.time, dt |-> n.v * 3600]
                    ELSE failed
               [] iso_time.unit = "M" ->
                    IF n.ok THEN [raised |-> FALSE, start |-> iso_time.time, dt |-> n.v * 60]
                    ELSE failed
               [] iso_time.unit = "S" ->
                    IF n.ok THEN [raised |-> FALSE, start |-> iso_time.time, dt |-> n.v]
                    ELSE failed
               [] OTHER -> [raised |-> FALSE, start |-> iso_time.time, dt |-> 0]

(* the for loop going on to the next entry where the code breaks out *)
RECURSIVE ScanValues_Skips(_, _, _, _)
ScanValues_Skips(values, when, i, result) ==
    IF i > Len(values) THEN [raised |-> FALSE, result |-> result]
    ELSE LET iv == iso_to_float_time_and_delta(values[i].validTime)
         IN  IF iv.raised THEN [raised |-> TRUE, result |-> NoneV]
             ELSE IF iv.start >= when \/ iv.start + iv.dt > when
                  THEN ScanValues_Skips(values, when, i + 1, result)
                  ELSE ScanValues_Skips(values, when, i + 1, values[i].value)

(* the for loop of _find_in_gridpoints from its i-th entry on; raised when the *)
(* decoding of a validTime raises                                              *)
RECURSIVE ScanValues(_, _, _, _)
ScanValues(values, when, i, result) ==
    IF i > Len(values) THEN [raised |-> FALSE, result |-> result]
    ELSE LET iv == iso_to_float_time_and_delta(values[i].validTime)
         IN  IF iv.raised THEN [raised |-> TRUE, result |-> NoneV]
             ELSE IF iv.start >= when \/ iv.start + iv.dt > when
                  THEN [raised |-> FALSE, result |-> result]
                  ELSE ScanValues(values, when, i + 1, values[i].value)

(* GridWeather._find_in_gridpoints; when = 0 stands for a falsy when; raised when *)
(* an exception leaves the method                                                 *)
find_in_gridpoints(grid, when) ==
    IF when = 0 THEN [raised |-> TRUE, result |-> NoneV]
    ELSE IF "properties" \notin grid.keys THEN [raised |-> TRUE, result |-> NoneV]
    ELSE IF grid.temperature.py # "dict" THEN [raised |-> TRUE, result |-> NoneV]
    ELSE IF "values" \notin grid.temperature.keys THEN [raised |-> TRUE, result |-> NoneV]
    ELSE ScanValues(grid.temperature.values, when, 1, NoneV)

NoLookup == [state |-> "none", grid |-> NoneV, when |-> 0, raised |-> FALSE, result |-> NoneV]

(* ---------------- NOAAApiForHA ---------------- *)
(* __init__ *)
NOAAApiForHA ==
    [refresh_interval |-> DEFAULT_REFRESH_INTERVAL,
     metadata |-> NoneV, metadata_at |-> 0,
     forecast |-> NoneV, forecast_at |-> 0, daily |-> NoneV,
     forecast_hourly |-> NoneV, forecast_hourly_at |-> 0, hourly |-> NoneV,
     forecast_grid_data |-> NoneV, forecast_grid_data_at |-> 0,
     all_data_ok |-> FALSE, all_data_ok_at |-> 0]

Max(a, b) == IF a >= b THEN a ELSE b

(* set_refresh_interval *)
(* the setter without its max() line *)
set_refresh_interval_Unclamped(a, refresh_interval) ==
    [a EXCEPT !.refresh_interval = refresh_interval]

set_refresh_interval(a, refresh_interval) ==
    [a EXCEPT !.refresh_interval = Max(refresh_interval, MIN_REFRESH_INTERVAL)]

(* _async_get_url: the body of a 200 reply, None for everything else *)
GetUrl(reply) ==
    IF reply.kind = "http" /\ reply.status = 200 THEN reply.body ELSE NoneV

(* the guard trusting the timestamp alone *)
IsFresh_IgnoresFlag(a, t) == t - a.all_data_ok_at < a.refresh_interval

(* the guard with the comparison made inclusive *)
IsFresh_Inclusive(a, t) == a.all_data_ok /\ t - a.all_data_ok_at <= a.refresh_interval

(* the guard of async_refresh *)
IsFresh(a, t) == a.all_data_ok /\ t - a.all_data_ok_at < a.refresh_interval

Stages == <<"daily", "hourly", "grid">>
StageIndex(stage) == CHOOSE i \in 1..3 : Stages[i] = stage
UrlKey(stage) ==
    CASE stage = "daily" -> "forecast"
      [] stage = "hourly" -> "forecastHourly"
      [] stage = "grid" -> "forecastGridData"

(* the daily block keeping the cached parser when the new payload gives no records *)
StoreDaily_KeepsRecords(s, reply, t) ==
    LET response == GetUrl(reply)
    IN  IF Truthy(response)
        THEN IF get_forecast(DailyForecast(response, t)) = <<>> /\ s.api.daily.py # "None"
             THEN [s EXCEPT !.api.forecast = response, !.api.forecast_at = t]
             ELSE [s EXCEPT !.api.forecast = response, !.api.forecast_at = t,
                            !.api.daily = DailyForecast(response, t)]
        ELSE [s EXCEPT !.result = FALSE]

(* the daily block forgetting to report its failure *)
StoreDaily_KeepsResult(s, reply, t) ==
    LET response == GetUrl(reply)
    IN  IF Truthy(response)
        THEN [s EXCEPT !.api.forecast = response, !.api.forecast_at = t,
                       !.api.daily = DailyForecast(response, t)]
        ELSE s

(* the daily block adding the new records to the ones already cached *)
StoreDaily_Appends(s, reply, t) ==
    LET response == GetUrl(reply)
        parsed == DailyForecast(response, t)
    IN  IF Truthy(response)
        THEN [s EXCEPT !.api.forecast = response, !.api.forecast_at = t,
                       !.api.daily = IF @.py = "None" THEN parsed
                                     ELSE [parsed EXCEPT !.data = s.api.daily.data \o parsed.data]]
        ELSE [s EXCEPT !.result = FALSE]

(* the three blocks of _async_get_forecasts; s is [api, result] *)
StoreDaily(s, reply, t) ==
    LET response == GetUrl(reply)
    IN  IF Truthy(response)
        THEN [s EXCEPT !.api.forecast = response, !.api.forecast_at = t,
                       !.api.daily = DailyForecast(response, t)]
        ELSE [s EXCEPT !.result = FALSE]

(* the hourly block taking its own outcome for the result *)
StoreHourly_SetsResult(s, reply, t) ==
    LET response == GetUrl(reply)
    IN  IF Truthy(response)
        THEN [s EXCEPT !.api.forecast_hourly = response, !.api.forecast_hourly_at = t,
                       !.api.hourly = HourlyForecast(response, t), !.result = TRUE]
        ELSE [s EXCEPT !.result = FALSE]

StoreHourly(s, reply, t) ==
    LET response == GetUrl(reply)
    IN  IF Truthy(response)
        THEN [s EXCEPT !.api.forecast_hourly = response, !.api.forecast_hourly_at = t,
                       !.api.hourly = HourlyForecast(response, t)]
        ELSE [s EXCEPT !.result = FALSE]

(* the grid block forgetting to report its failure *)
StoreGrid_KeepsResult(s, reply, t) ==
    LET response == GetUrl(reply)
    IN  IF Truthy(response)
        THEN [s EXCEPT !.api.forecast_grid_data = response, !.api.forecast_grid_data_at = t]
        ELSE s

StoreGrid(s, reply, t) ==
    LET response == GetUrl(reply)
    IN  IF Truthy(response)
        THEN [s EXCEPT !.api.forecast_grid_data = response, !.api.forecast_grid_data_at = t]
        ELSE [s EXCEPT !.result = FALSE]

Store(stage, s, reply, t) ==
    CASE stage = "daily" -> StoreDaily(s, reply, t)
      [] stage = "hourly" -> StoreHourly(s, reply, t)
      [] stage = "grid" -> StoreGrid(s, reply, t)

(* ---------------- values handed back to callers ---------------- *)
Bool(b) == [py |-> "bool", v |-> b]
List(items) == [py |-> "list", items |-> items]

(* the forecast methods handing back None when nothing is cached *)
ClientReturn_None(op, a, refreshed) ==
    CASE op = "async_refresh" -> Bool(refreshed)
      [] op = "async_get_daily_forecasts" ->
            IF a.daily.py # "None" THEN List(get_forecast(a.daily)) ELSE NoneV
      [] op = "async_get_hourly_forecasts" ->
            IF a.hourly.py # "None" THEN List(get_forecast(a.hourly)) ELSE NoneV

(* what each client method returns once async_refresh has returned *)
ClientReturn(op, a, refreshed) ==
    CASE op = "async_refresh" -> Bool(refreshed)
      [] op = "async_get_daily_forecasts" ->
            IF a.daily.py # "None" THEN List(get_forecast(a.daily)) ELSE List(<<>>)
      [] op = "async_get_hourly_forecasts" ->
            IF a.hourly.py # "None" THEN List(get_forecast(a.hourly)) ELSE List(<<>>)

(* NOAAProxy methods, given what the client method returned *)
(* current conditions taken from the last hourly record *)
async_get_current_conditions_Last(hourly_forecasts) ==
    IF hourly_forecasts.py = "list" /\ Len(hourly_forecasts.items) > 0
    THEN hourly_forecasts.items[Len(hourly_forecasts.items)]
    ELSE EmptyDict

async_get_current_conditions(hourly_forecasts) ==
    IF hourly_forecasts.py = "list" /\ Len(hourly_forecasts.items) > 0
    THEN hourly_forecasts.items[1]
    ELSE EmptyDict

async_get_hourly_forecast(hourly_forecasts) ==
    IF hourly_forecasts.py # "None" THEN hourly_forecasts ELSE List(<<>>)

async_get_daily_forecast(daily_forecasts) ==
    IF daily_forecasts.py # "None" THEN daily_forecasts ELSE List(<<>>)

ClientOps == {"async_refresh", "async_get_daily_forecasts", "async_get_hourly_forecasts"}
ProxyClientOp(via) ==
    CASE via = "async_get_current_conditions" -> "async_get_hourly_forecasts"
      [] via = "async_get_daily_forecast" -> "async_get_daily_forecasts"
      [] via = "async_get_hourly_forecast" -> "async_get_hourly_forecasts"

(* ---------------- the coroutine, as transformations of the world ---------------- *)
World == [api |-> api, task |-> task, host |-> host, hist |-> hist]

NoOut == [meta |-> NotSent, daily |-> NotSent, hourly |-> NotSent, grid |-> NotSent]
NoStamp == [daily |-> 0, hourly |-> 0, grid |-> 0]
NoCall == [op |-> "none", via |-> "direct", at |-> 0, pre |-> NOAAApiForHA, reqs |-> <<>>,
           out |-> NoOut, stamp |-> NoStamp, state |-> "none", ran |-> FALSE,
           refreshed |-> FALSE, ret |-> NoneV]

IdleTask == [pc |-> "idle", op |-> "none", via |-> "direct", result |-> TRUE]

(* _async_update_data after the three awaits: the normal return *)
UpdateResult(h) ==
    [current_condition |-> IF h.current.py # "None" THEN h.current ELSE EmptyDict,
     daily_forecast |-> IF h.daily_forecast.py # "None" THEN h.daily_forecast ELSE List(<<>>),
     hourly_forecast |-> IF h.hourly_forecast.py # "None" THEN h.hourly_forecast ELSE List(<<>>)]

(* an update cycle that asks for the daily forecast again when it came back empty *)
HostReceive_Retries(h, via, ret) ==
    CASE via = "async_get_current_conditions" ->
            [h EXCEPT !.current = async_get_current_conditions(ret), !.upd = "async_get_daily_forecast"]
      [] via = "async_get_daily_forecast" ->
            IF async_get_daily_forecast(ret) = List(<<>>)
            THEN [h EXCEPT !.daily_forecast = async_get_daily_forecast(ret)]
            ELSE [h EXCEPT !.daily_forecast = async_get_daily_forecast(ret),
                           !.upd = "async_get_hourly_forecast"]
      [] via = "async_get_hourly_forecast" ->
            LET h2 == [h EXCEPT !.hourly_forecast = async_get_hourly_forecast(ret)]
            IN  [h2 EXCEPT !.upd = "none", !.outcome = "ok", !.data = UpdateResult(h2)]

(* the proxy method returns into _async_update_data, which goes on to its next await *)
HostReceive(h, via, ret) ==
    CASE via = "async_get_current_conditions" ->
            [h EXCEPT !.current = async_get_current_conditions(ret), !.upd = "async_get_daily_forecast"]
      [] via = "async_get_daily_forecast" ->
            [h EXCEPT !.daily_forecast = async_get_daily_forecast(ret), !.upd = "async_get_hourly_forecast"]
      [] via = "async_get_hourly_forecast" ->
            LET h2 == [h EXCEPT !.hourly_forecast = async_get_hourly_forecast(ret)]
            IN  [h2 EXCEPT !.upd = "none", !.outcome = "ok", !.data = UpdateResult(h2)]

(* async_refresh returned `refreshed`: the client method returns to its caller *)
Return(w, refreshed) ==
    LET ret == ClientReturn(w.task.op, w.api, refreshed)
        call == [w.hist.call EXCEPT !.state = "done", !.refreshed = refreshed, !.ret = ret]
    IN  [w EXCEPT !.task = IdleTask,
                  !.hist.call = call,
                  !.host = IF w.task.via = "direct" THEN @ ELSE HostReceive(@, w.task.via, ret)]

(* _async_get_forecasts from its i-th request on, up to the next await or its return *)
RECURSIVE Advance(_, _, _)
Advance(w, t, i) ==
    IF i > 3
    THEN LET ok == w.task.result
             w2 == [w EXCEPT !.api.all_data_ok = ok,
                             !.api.all_data_ok_at = IF ok THEN t ELSE @,
                             !.hist.call.ran = TRUE]
         IN  Return(w2, ok)
    ELSE IF UrlKey(Stages[i]) \in w.api.metadata.urls
         THEN [w EXCEPT !.task.pc = Stages[i],
                        !.hist.call.reqs = Append(@, Stages[i])]
         ELSE LET s == Store(Stages[i], [api |-> w.api, result |-> w.task.result], NotSent, t)
              IN  Advance([w EXCEPT !.api = s.api, !.task.result = s.result], t, i + 1)

(* a reply that carries a payload: HTTP 200 with a non-empty JSON object *)
Delivered(reply) ==
    reply.kind = "http" /\ reply.status = 200 /\ reply.body.py = "dict" /\ reply.body.keys # {}

(* the history kept of the payload replies *)
NoteReply(h, stage, reply, t) ==
    [h EXCEPT !.call.out[stage] = reply, !.call.stamp[stage] = t,
              !.lastOk[stage] = IF Delivered(reply) THEN reply ELSE @,
              !.lastOkAt[stage] = IF Delivered(reply) THEN t ELSE @]

(* a client method is called: async_refresh decides, async_get_for_location sends *)
BeginCall(w, t, op, via) ==
    LET call == [NoCall EXCEPT !.op = op, !.via = via, !.at = t, !.pre = w.api, !.state = "running"]
        h == [w.hist EXCEPT !.call = call,
                            !.prevAt = IF w.hist.call.op = "none" THEN -1 ELSE w.hist.call.at,
                            !.prevReqs = Len(w.hist.call.reqs)]
        w2 == [w EXCEPT !.hist = h, !.task = [IdleTask EXCEPT !.op = op, !.via = via]]
    IN  IF IsFresh(w.api, t)
        THEN Return(w2, TRUE)
        ELSE [w2 EXCEPT !.task.pc = "meta",
                        !.hist.call.reqs = <<"meta">>,
                        !.hist.fetches = @ + 1,
                        !.hist.prevMetaAt = w.hist.lastMetaAt,
                        !.hist.lastMetaAt = t]

(* a failed metadata reply marking the cached data as not ok *)
OnMetaReply_MarksStale(w, t, reply) ==
    LET response == GetUrl(reply)
        w1 == [w EXCEPT !.hist.call.out.meta = reply]
    IN  IF ~Truthy(response) THEN Return([w1 EXCEPT !.api.all_data_ok = FALSE], FALSE)
        ELSE LET w2 == [w1 EXCEPT !.api.metadata = response, !.api.metadata_at = t,
                                  !.task.result = TRUE]
             IN  IF response.properties # "dict"
                 THEN Return(w2, FALSE)
                 ELSE Advance(w2, t, 1)

(* the metadata reply arrives in async_get_for_location *)
OnMetaReply(w, t, reply) ==
    LET response == GetUrl(reply)
        w1 == [w EXCEPT !.hist.call.out.meta = reply]
    IN  IF ~Truthy(response) THEN Return(w1, FALSE)
        ELSE LET w2 == [w1 EXCEPT !.api.metadata = response, !.api.metadata_at = t,
                                  !.task.result = TRUE]
             IN  IF response.properties # "dict"
                 THEN Return(w2, FALSE)
                 ELSE Advance(w2, t, 1)

(* a payload reply arrives in _async_get_forecasts *)
OnPayloadReply(w, t, reply) ==
    LET stage == w.task.pc
        s == Store(stage, [api |-> w.api, result |-> w.task.result], reply, t)
        w2 == [w EXCEPT !.api = s.api, !.task.result = s.result,
                        !.hist = NoteReply(@, stage, reply, t)]
    IN  Advance(w2, t, StageIndex(stage) + 1)

(* the replies tried for each request *)
MetaReplies == {Transport, Http(401, NoneV), Http(200, MetaGood), Http(200, MetaNoUrls), Http(200, MetaBad)}
StageReplies(stage) ==
    CASE stage = "daily" -> {Transport, Http(200, PayloadA), Http(200, PayloadB)}
      [] stage = "hourly" -> {Http(401, NoneV), Http(200, PayloadA)}
      [] stage = "grid" -> {Http(200, EmptyDict), Http(200, GridA)}

IsError(reply) == reply.kind = "exception" \/ (reply.kind = "http" /\ reply.status = 401)

(* ---------------- the state machine ---------------- *)
NoUpdate == [upd |-> "none", started |-> 0, current |-> NoneV, daily_forecast |-> NoneV,
             hourly_forecast |-> NoneV, outcome |-> "none", data |-> NoneV,
             sawError |-> FALSE, pre |-> NOAAApiForHA]

Init ==
    /\ now = 0
    /\ api = NOAAApiForHA
    /\ task = IdleTask
    /\ host = NoUpdate
    /\ hist = [call |-> NoCall, prevAt |-> -1, prevReqs |-> 0,
               lastMetaAt |-> -1, prevMetaAt |-> -1, ticks |-> 0, fetches |-> 0, fetches0 |-> 0,
               calls |-> 0, updates |-> 0,
               lastOk |-> [daily |-> NotSent, hourly |-> NotSent, grid |-> NotSent],
               lastOkAt |-> NoStamp]
    /\ lookup = NoLookup

Set(w) ==
    /\ api' = w.api
    /\ task' = w.task
    /\ host' = w.host
    /\ hist' = w.hist
    /\ lookup' = lookup

InUpdate == host.upd # "none"
DeadlinePassed == InUpdate /\ now - host.started >= UPDATE_TIMEOUT

(* time.time() moves on between calls *)
Tick ==
    /\ hist.ticks < MaxTicks
    /\ task.pc = "idle" /\ ~InUpdate
    /\ \E d \in IdleDeltas : now' = now + d
    /\ hist' = [hist EXCEPT !.ticks = @ + 1]
    /\ UNCHANGED <<api, task, host, lookup>>

(* time.time() moves on while _async_update_data awaits a reply *)
TickAwait ==
    /\ hist.ticks < MaxTicks
    /\ task.pc # "idle" /\ InUpdate
    /\ \E d \in AwaitDeltas : now' = now + d
    /\ hist' = [hist EXCEPT !.ticks = @ + 1]
    /\ UNCHANGED <<api, task, host, lookup>>

SetRefreshInterval ==
    /\ task.pc = "idle" /\ ~InUpdate
    /\ \E x \in Intervals : api' = set_refresh_interval(api, x)
    /\ UNCHANGED <<now, task, host, hist, lookup>>

CanFetch == IsFresh(api, now) \/ hist.fetches < MaxFetches

(* async_refresh / async_get_daily_forecasts / async_get_hourly_forecasts called directly *)
ClientCall ==
    /\ task.pc = "idle" /\ ~InUpdate /\ CanFetch
    /\ hist.calls < MaxCalls
    /\ \E op \in ClientOps :
          Set(BeginCall([World EXCEPT !.hist.calls = @ + 1], now, op, "direct"))
    /\ UNCHANGED now

(* _async_update_data enters its timeout block *)
UpdateBegin ==
    /\ task.pc = "idle" /\ ~InUpdate
    /\ hist.updates < MaxUpdates
    /\ host' = [NoUpdate EXCEPT !.upd = "async_get_current_conditions", !.started = now,
                                !.outcome = "running", !.pre = api]
    /\ hist' = [hist EXCEPT !.updates = @ + 1, !.fetches0 = hist.fetches]
    /\ UNCHANGED <<now, api, task, lookup>>

(* _async_update_data awaits its next proxy method *)
ProxyCall ==
    /\ task.pc = "idle" /\ InUpdate
    /\ IsFresh(api, now) \/ hist.fetches < MaxHostFetches
    /\ Set(BeginCall(World, now, ProxyClientOp(host.upd), host.upd))
    /\ UNCHANGED now

MetaReply ==
    /\ task.pc = "meta" /\ ~DeadlinePassed
    /\ \E r \in MetaReplies :
          Set(OnMetaReply([World EXCEPT !.host.sawError = @ \/ (InUpdate /\ IsError(r))], now, r))
    /\ UNCHANGED now

PayloadReply ==
    /\ task.pc \in {"daily", "hourly", "grid"} /\ ~DeadlinePassed
    /\ \E r \in StageReplies(task.pc) :
          Set(OnPayloadReply([World EXCEPT !.host.sawError = @ \/ (InUpdate /\ IsError(r))], now, r))
    /\ UNCHANGED now

(* a timeout handler that re-creates the client before raising UpdateFailed *)
Timeout_Resets ==
    /\ task.pc # "idle" /\ DeadlinePassed
    /\ task' = IdleTask
    /\ host' = [host EXCEPT !.upd = "none", !.outcome = "UpdateFailed"]
    /\ hist' = [hist EXCEPT !.call.state = "cancelled"]
    /\ api' = NOAAApiForHA
    /\ UNCHANGED <<now, lookup>>

(* timeout(20) cancels the awaiting coroutine; _async_update_data raises UpdateFailed *)
Timeout ==
    /\ task.pc # "idle" /\ DeadlinePassed
    /\ task' = IdleTask
    /\ host' = [host EXCEPT !.upd = "none", !.outcome = "UpdateFailed"]
    /\ hist' = [hist EXCEPT !.call.state = "cancelled"]
    /\ UNCHANGED <<now, api, lookup>>

(* the client driven directly through its public methods *)
Next ==
    \/ Tick
    \/ SetRefreshInterval
    \/ ClientCall
    \/ MetaReply
    \/ PayloadReply

Spec == Init /\ [][Next]_vars

(* the client driven by the coordinator's update cycle *)
NextHost ==
    \/ Tick
    \/ TickAwait
    \/ UpdateBegin
    \/ ProxyCall
    \/ MetaReply
    \/ PayloadReply
    \/ Timeout

SpecHost == Init /\ [][NextHost]_vars

(* ---------------- the period parser on its own ---------------- *)
(* a period as api.weather.gov sends it, and the ways one field of it can differ *)
ParseBase ==
    NoaaPeriod(0, IsoTime(3600), IntV(50), Text(<<"F">>), PopDict(IntV(30)),
               Str(<<Num(10), Word("mph")>>))
Temps ==
    {<<IntV(20), Text(<<"d", "e", "g", "F">>)>>, <<IntV(20), Text(<<"C">>)>>,
     <<NoneV, Text(<<"F">>)>>, <<Str(<<Word("warm")>>), Text(<<"F">>)>>,
     <<IntV(50), NoneV>>, <<IntV(50), IntV(1)>>}
Pops ==
    {PopDict(NoneV), PopNoValue, PopDict(Str(<<Word("high")>>)), PopDict(Float(12500)),
     NoneV, IntV(30)}
Winds ==
    {Str(<<Num(5), Word("km/h")>>), Str(<<Num(10), Word("to"), Num(15), Word("mph")>>),
     Str(<<Word("calm")>>), Str(<<>>), NoneV, Str(<<Num(0), Word("mph")>>)}
Starts == {NoneV, BadTime}
PeriodVariants ==
    {ParseBase, NoneV}
    \cup {[ParseBase EXCEPT !.temperature = tu[1], !.temperatureUnit = tu[2]] : tu \in Temps}
    \cup {[ParseBase EXCEPT !.probabilityOfPrecipitation = pop] : pop \in Pops}
    \cup {[ParseBase EXCEPT !.windSpeed = ws] : ws \in Winds}
    \cup {[ParseBase EXCEPT !.startTime = st] : st \in Starts}

(* NOAA numbers the periods of a payload from 1 *)
DailyPayload(v) ==
    [py |-> "dict", keys |-> {"properties"},
     periods |-> [i \in DOMAIN v |-> IF v[i].py = "dict" THEN [v[i] EXCEPT !.number = i] ELSE v[i]]]
DailyBodies ==
    {PayloadB} \cup {DailyPayload(v) : v \in UNION {[1..n -> PeriodVariants] : n \in 0..MaxPeriods}}
ParseTimes == {1000, 2000}

(* the daily block of _async_get_forecasts receives a payload at time t and parses it *)
ParseDaily ==
    /\ api.forecast.py = "None"
    /\ \E body \in DailyBodies, t \in ParseTimes :
          /\ now' = t
          /\ api' = StoreDaily([api |-> api, result |-> TRUE], Http(200, body), t).api
    /\ UNCHANGED <<task, host, hist, lookup>>

NextParse == ParseDaily

SpecParse == Init /\ [][NextParse]_vars

(* ---------------- the grid lookup on its own ---------------- *)
GridStarts == {3600, 7200}
GridUnits == {"H", ""}
GridValues == {IntV(5), IntV(7)}
GridEntries ==
    {GridEntry(ValidTime(t, 1, u), v) : t \in GridStarts, u \in GridUnits, v \in GridValues}
GridBodies ==
    {GridNoProperties, GridPayload(NoneV), GridPayload(QuantityNoValues)}
    \cup {GridPayload(Quantity(vs)) : vs \in UNION {[1..n -> GridEntries] : n \in 0..MaxSeries}}
Whens == {0, 3599, 3600, 5400, 7200, 7201, 10801}

(* _find_in_gridpoints(temperature, when) is called on a GridWeather *)
FindInGridpoints ==
    /\ lookup.state = "none"
    /\ \E grid \in GridBodies, when \in Whens :
          LET r == find_in_gridpoints(grid, when)
          IN  lookup' = [state |-> "done", grid |-> grid, when |-> when,
                         raised |-> r.raised, result |-> r.result]
    /\ UNCHANGED <<now, api, task, host, hist>>

NextGrid == FindInGridpoints

SpecGrid == Init /\ [][NextGrid]_vars

(* ---------------- the noaa_utils functions and the interval setter on their own ---------------- *)
MaxSpeed == 12
MaxDegrees == 100
MaxDuration == 3

(* what a caller can hand to a speed conversion *)
SpeedInputs ==
    {NoneV, IntV(0), Float(0), Str(<<>>), Str(<<Word("garbage")>>), Str(<<Num(0)>>),
     Str(<<Num(10), Word("mph")>>), EmptyDict, PopNoValue, List(<<>>), List(<<IntV(1)>>), BigInt}
    \cup {IntV(n) : n \in 1..MaxSpeed} \cup {IntV(-n) : n \in 1..MaxSpeed}
    \cup {Float(500 * n) : n \in 1..MaxSpeed} \cup {Str(<<Num(n)>>) : n \in 1..MaxSpeed}

(* whole degrees, in thousandths *)
Degrees == {1000 * d : d \in -MaxDegrees..MaxDegrees}

(* the period strings tried after /PT: a whole number, text that int() rejects, nothing *)
Bodies ==
    {Str(<<Num(n)>>) : n \in -MaxDuration..MaxDuration} \cup {Str(<<Word("1H30")>>), Str(<<>>)}
IsoInputs ==
    {Interval(iso, t, sep, Str(<<>>), "") : iso \in BOOLEAN, t \in {3600, 7200}, sep \in {"", "/"}}
    \cup {Interval(iso, t, "/PT", body, unit) :
             iso \in BOOLEAN, t \in {3600, 7200}, body \in Bodies, unit \in {"H", "M", "S", "D"}}

IntervalInputs == {-60, 0, 1, 1799, 1800, 1801, 3600, 43200, 86400}

Applied(name, arg, raised, result, origin) ==
    [state |-> name, arg |-> arg, raised |-> raised, result |-> result, origin |-> origin]

SpeedMiphToMps ==
    /\ lookup.state = "none"
    /\ \E speed \in SpeedInputs :
          LET r == speed_miph_to_mps(speed)
          IN  lookup' = Applied("speed_miph_to_mps", speed, r.raised, r.value, NoneV)
    /\ UNCHANGED <<now, api, task, host, hist>>

SpeedMpsToMiph ==
    /\ lookup.state = "none"
    /\ \E speed \in SpeedInputs :
          LET r == speed_mps_to_miph(speed)
          IN  lookup' = Applied("speed_mps_to_miph", speed, r.raised, r.value, NoneV)
    /\ UNCHANGED <<now, api, task, host, hist>>

ConvertFToC ==
    /\ lookup.state = "none"
    /\ \E t \in Degrees :
          lookup' = Applied("convert_F_to_C", Float(t), FALSE, Float(convert_F_to_C(t)), NoneV)
    /\ UNCHANGED <<now, api, task, host, hist>>

(* convert_C_to_F on a temperature of its own, or on what convert_F_to_C returned *)
ConvertCToF ==
    /\ lookup.state \in {"none", "convert_F_to_C"}
    /\ \E t \in (IF lookup.state = "none" THEN Degrees ELSE {lookup.result.milli}) :
          \E f \in convert_C_to_F(t) :
             lookup' = Applied("convert_C_to_F", Float(t), FALSE, Float(f),
                               IF lookup.state = "none" THEN NoneV ELSE lookup.arg)
    /\ UNCHANGED <<now, api, task, host, hist>>

IsoToFloatTimeAndDelta ==
    /\ lookup.state = "none"
    /\ \E iso_time \in IsoInputs :
          LET r == iso_to_float_time_and_delta(iso_time)
          IN  lookup' = Applied("iso_to_float_time_and_delta", iso_time, r.raised,
                                [start |-> r.start, dt |-> r.dt], NoneV)
    /\ UNCHANGED <<now, api, task, host, hist>>

(* set_refresh_interval called any number of times on a client that has not fetched *)
SetRefreshIntervalTo ==
    /\ lookup.state \in {"none", "set_refresh_interval"}
    /\ \E x \in IntervalInputs :
          /\ api' = set_refresh_interval(api, x)
          /\ lookup' = Applied("set_refresh_interval", x, FALSE, NoneV, NoneV)
    /\ UNCHANGED <<now, task, host, hist>>

NextUtils ==
    \/ SpeedMiphToMps
    \/ SpeedMpsToMiph
    \/ ConvertFToC
    \/ ConvertCToF
    \/ IsoToFloatTimeAndDelta
    \/ SetRefreshIntervalTo

SpecUtils == Init /\ [][NextUtils]_vars

TypeOK ==
    /\ now \in Nat
    /\ task.pc \in {"idle", "meta", "daily", "hourly", "grid"}
    /\ api.refresh_interval >= MIN_REFRESH_INTERVAL
    /\ lookup.state \in {"none", "done", "speed_miph_to_mps", "speed_mps_to_miph", "convert_F_to_C",
                        "convert_C_to_F", "iso_to_float_time_and_delta", "set_refresh_interval"}

(* ---------------- the claims ---------------- *)
Call == hist.call
CallDone == Call.state = "done"
(* the guard of refresh() as the specification words it, on the state the call found *)
CallFresh ==
    Call.pre.all_data_ok /\ Call.at - Call.pre.all_data_ok_at < Call.pre.refresh_interval
AllRequests == <<"meta", "daily", "hourly", "grid">>
MetaUsable == Delivered(Call.out.meta) /\ Call.out.meta.body.properties = "dict"
NamedStages ==
    LET Named(st) == UrlKey(st) \in Call.out.meta.body.urls
    IN  SelectSeq(Stages, Named)

(* C1 as stated: a refresh that finds the data current sends nothing, every other
   refresh sends the metadata request followed by the three payload requests *)
C1_Original ==
    CallDone => (Call.reqs = IF CallFresh THEN <<>> ELSE AllRequests)

(* C1 amended: a refresh that finds the data current sends nothing; every other
   refresh sends the metadata request, and the payload requests follow only when
   that reply is usable, one for each endpoint URL it names, in the order
   daily, hourly, grid *)
C1_Refresh ==
    CallDone =>
        Call.reqs = IF CallFresh THEN <<>>
                    ELSE IF MetaUsable THEN <<"meta">> \o NamedStages
                    ELSE <<"meta">>

C1_Witness ==
    /\ CallDone /\ CallFresh /\ Call.reqs = <<>>
    /\ hist.prevReqs = 4 /\ Call.at > hist.prevAt

(* C2: two calls less than the 30-minute floor apart make exactly one round trip
   between them, the second one sending nothing; a call made once the configured
   interval has elapsed makes a new round trip *)
C2_OneRoundTripWithinFloor ==
    /\ (CallDone /\ hist.prevAt >= 0 /\ Call.at - hist.prevAt < MIN_REFRESH_INTERVAL)
          => (Call.reqs = <<>> /\ hist.prevReqs > 0)
    /\ (CallDone /\ Call.at - Call.pre.all_data_ok_at >= Call.pre.refresh_interval)
          => Call.reqs # <<>>

(* C3: two consecutive metadata requests of one client are at least
   MIN_REFRESH_INTERVAL seconds apart *)
C3_FloorBetweenFetches ==
    hist.prevMetaAt >= 0 => hist.lastMetaAt - hist.prevMetaAt >= MIN_REFRESH_INTERVAL

(* C4: once fetch_all has returned, all_ok holds exactly when the daily, hourly and
   grid replies of that cycle all delivered a payload; a delivered payload replaces
   the cached one, a failed one leaves its cached value as it was *)
C4_FetchAll ==
    (CallDone /\ Call.ran) =>
        /\ api.all_data_ok = (\A st \in {"daily", "hourly", "grid"} : Delivered(Call.out[st]))
        /\ IF Delivered(Call.out.daily)
           THEN /\ api.forecast = Call.out.daily.body
                /\ api.forecast_at = Call.stamp.daily
                /\ api.daily.py = "DailyForecast"
                /\ api.daily.forecast_at = Call.stamp.daily
           ELSE /\ api.forecast = Call.pre.forecast
                /\ api.forecast_at = Call.pre.forecast_at
                /\ api.daily = Call.pre.daily
        /\ IF Delivered(Call.out.hourly)
           THEN /\ api.forecast_hourly = Call.out.hourly.body
                /\ api.forecast_hourly_at = Call.stamp.hourly
                /\ api.hourly.py = "HourlyForecast"
                /\ api.hourly.forecast_at = Call.stamp.hourly
           ELSE /\ api.forecast_hourly = Call.pre.forecast_hourly
                /\ api.forecast_hourly_at = Call.pre.forecast_hourly_at
                /\ api.hourly = Call.pre.hourly
        /\ IF Delivered(Call.out.grid)
           THEN /\ api.forecast_grid_data = Call.out.grid.body
                /\ api.forecast_grid_data_at = Call.stamp.grid
           ELSE /\ api.forecast_grid_data = Call.pre.forecast_grid_data
                /\ api.forecast_grid_data_at = Call.pre.forecast_grid_data_at

C4_Witness ==
    /\ CallDone /\ Call.ran
    /\ ~Delivered(Call.out.daily) /\ Delivered(Call.out.hourly)
    /\ Call.pre.daily.py # "None" /\ Call.pre.hourly.py # "None"
    /\ api.daily = Call.pre.daily /\ api.hourly # Call.pre.hourly
    /\ ~api.all_data_ok

(* everything the client caches: all its fields but the configured interval *)
Cached(a) == [a EXCEPT !.refresh_interval = 0]

(* C5: when the metadata request fails, the refresh returns false, nothing of the
   client's cache changes, and the forecast methods return the records they
   held before *)
C5_DiscoverFails ==
    (CallDone /\ Call.reqs # <<>> /\ ~Delivered(Call.out.meta)) =>
        /\ ~Call.refreshed
        /\ Cached(api) = Cached(Call.pre)
        /\ Call.op = "async_refresh" => Call.ret = Bool(FALSE)
        /\ Call.op = "async_get_daily_forecasts" =>
              Call.ret = List(IF Call.pre.daily.py = "None" THEN <<>> ELSE Call.pre.daily.data)
        /\ Call.op = "async_get_hourly_forecasts" =>
              Call.ret = List(IF Call.pre.hourly.py = "None" THEN <<>> ELSE Call.pre.hourly.data)

C5_Witness ==
    /\ CallDone /\ Call.reqs = <<"meta">> /\ ~Delivered(Call.out.meta)
    /\ Call.op = "async_get_daily_forecasts"
    /\ Call.pre.all_data_ok
    /\ Call.ret.py = "list" /\ Len(Call.ret.items) = 2

(* C6: an update cycle in which a request met a transport or authentication error
   does not return a normal result: it ends in the error outcome *)
C6_ErrorSurfaces ==
    (host.outcome \in {"ok", "UpdateFailed"} /\ host.sawError) => host.outcome = "UpdateFailed"

(* C7: a daily reply with HTTP 200 whose body lacks `properties` counts as a failed
   fetch: all_ok is false after the cycle and the cached daily records are kept *)
C7_SchemaErrorAsFailure ==
    (CallDone /\ Call.ran /\ Delivered(Call.out.daily)
        /\ "properties" \notin Call.out.daily.body.keys) =>
        (~api.all_data_ok /\ api.daily = Call.pre.daily)

(* C8: the forecast methods go through refresh() and return a list, never None:
   the records parsed from the last delivered payload of that kind, the empty list
   when none was ever delivered *)
C8_ForecastsReturned ==
    (CallDone /\ Call.op \in {"async_get_daily_forecasts", "async_get_hourly_forecasts"}) =>
        LET st == IF Call.op = "async_get_daily_forecasts" THEN "daily" ELSE "hourly"
            last == hist.lastOk[st]
            records == IF last = NotSent THEN <<>>
                       ELSE IF "properties" \in last.body.keys
                            THEN ParseFrom(last.body.periods, hist.lastOkAt[st], 1, <<>>)
                            ELSE <<>>
        IN  /\ Call.ret.py = "list"
            /\ Call.ret.items = records
            /\ ~CallFresh => Call.reqs # <<>>

C8_Witness ==
    /\ CallDone /\ Call.op = "async_get_daily_forecasts"
    /\ Call.ret = List(<<>>) /\ hist.lastOk.daily = NotSent
    /\ Delivered(Call.out.meta) /\ ~Call.refreshed

(* C9: get_current_conditions returns the first record of the hourly list its own
   get_hourly_forecasts call returned, and {} exactly when that list is empty *)
C9_CurrentConditions ==
    (CallDone /\ Call.via = "async_get_current_conditions") =>
        /\ host.current = IF Len(Call.ret.items) = 0 THEN EmptyDict ELSE Call.ret.items[1]
        /\ (host.current = EmptyDict) = (Len(Call.ret.items) = 0)

C9_Witness ==
    /\ CallDone /\ Call.via = "async_get_current_conditions"
    /\ Len(Call.ret.items) = 2 /\ host.current.number = 1

(* C10: whatever the replies of the three payload requests, storing them in any of
   the six orders leaves the same daily, hourly and grid cache and the same all_ok
   as the order the cycle ran *)
Orders == {<<1, 2, 3>>, <<1, 3, 2>>, <<2, 1, 3>>, <<2, 3, 1>>, <<3, 1, 2>>, <<3, 2, 1>>}
StoreInOrder(order) ==
    LET put(s, i) == Store(Stages[order[i]], s, Call.out[Stages[order[i]]], Call.stamp[Stages[order[i]]])
    IN  put(put(put([api |-> Call.pre, result |-> TRUE], 1), 2), 3)
CacheOf(a) ==
    <<a.forecast, a.forecast_at, a.daily, a.forecast_hourly, a.forecast_hourly_at, a.hourly,
      a.forecast_grid_data, a.forecast_grid_data_at>>

C10_OrderIndependent ==
    (CallDone /\ Call.ran /\ now = Call.at) =>
        \A order \in Orders :
            LET s == StoreInOrder(order)
            IN  CacheOf(s.api) = CacheOf(api) /\ s.result = api.all_data_ok

C10_Witness ==
    /\ CallDone /\ Call.ran /\ now = Call.at
    /\ ~Delivered(Call.out.daily) /\ Delivered(Call.out.hourly) /\ Delivered(Call.out.grid)
    /\ Call.pre.hourly.py # "None"

(* what the client caches for one stage: the raw payload, its time, the parsed object *)
StageCache(a, stage) ==
    CASE stage = "daily" -> <<a.forecast, a.forecast_at, a.daily>>
      [] stage = "hourly" -> <<a.forecast_hourly, a.forecast_hourly_at, a.hourly>>
      [] stage = "grid" -> <<a.forecast_grid_data, a.forecast_grid_data_at, NoneV>>

CacheFields == {"metadata", "forecast", "daily", "forecast_hourly", "hourly", "forecast_grid_data"}

(* C11: when the 20 s timeout cancels a refresh cycle at one of its awaits, the   *)
(* update ends as UpdateFailed, nothing cached before the cycle has become None,  *)
(* every stage whose reply had not arrived keeps exactly what it cached, all_ok    *)
(* and all_ok_at are those found by the cycle, and the data is not fresh, so the   *)
(* next poll sends a refresh again.                                                *)
C11_TimeoutFailsCycle ==
    (Call.state = "cancelled" /\ ~InUpdate) =>
        /\ host.outcome = "UpdateFailed"
        /\ \A f \in CacheFields : Call.pre[f].py # "None" => api[f].py # "None"
        /\ \A i \in 1..3 : Call.out[Stages[i]].kind = "notsent" =>
                                StageCache(api, Stages[i]) = StageCache(Call.pre, Stages[i])
        /\ api.all_data_ok = Call.pre.all_data_ok
        /\ api.all_data_ok_at = Call.pre.all_data_ok_at
        /\ ~IsFresh(api, now)

(* the timeout fired at the hourly await of a cycle that had stored a daily payload *)
(* over data cached by an earlier cycle                                             *)
C11_Witness ==
    /\ Call.state = "cancelled" /\ ~InUpdate
    /\ Delivered(Call.out.daily) /\ Call.out.hourly.kind = "notsent"
    /\ Call.pre.forecast_hourly.py # "None"
    /\ C11_TimeoutFailsCycle

(* the records of a parsed forecast without the time of the fetch *)
Unstamped(obj) ==
    IF obj.py = "None" THEN obj
    ELSE [py |-> obj.py,
          data |-> [i \in 1..Len(obj.data) |-> [obj.data[i] EXCEPT !.last_api_update = 0]]]

(* the cached contents: payloads, records and all_ok, without the fetch times *)
Contents(a) ==
    [forecast |-> a.forecast, daily |-> Unstamped(a.daily),
     forecast_hourly |-> a.forecast_hourly, hourly |-> Unstamped(a.hourly),
     forecast_grid_data |-> a.forecast_grid_data, all_data_ok |-> a.all_data_ok]

(* the same replies stored by a first refresh of a newly constructed client *)
FirstRefresh ==
    LET put(s, i) == Store(Stages[i], s, Call.out[Stages[i]], Call.stamp[Stages[i]])
        s3 == put(put(put([api |-> NOAAApiForHA, result |-> TRUE], 1), 2), 3)
    IN  [s3.api EXCEPT !.all_data_ok = s3.result]

AllDelivered == \A i \in 1..3 : Delivered(Call.out[Stages[i]])

(* refresh() called again at time t and answered as the call before it *)
RECURSIVE Answer(_, _)
Answer(w, t) ==
    IF w.task.pc = "idle" THEN w
    ELSE IF w.task.pc = "meta" THEN Answer(OnMetaReply(w, t, Call.out.meta), t)
    ELSE Answer(OnPayloadReply(w, t, Call.out[w.task.pc]), t)
RefreshAgain(t) == Answer(BeginCall(World, t, "async_refresh", "direct"), t).api

(* C12: when a call has returned, refresh() called again at once, or called again *)
(* when the interval has passed and answered as the call before, leaves the       *)
(* cached daily, hourly and grid contents and all_ok as they are (fetch times     *)
(* apart); a refresh whose three payloads arrive leaves, whatever failed before   *)
(* it, the contents a first refresh of a new client leaves with the same replies. *)
C12_RefreshIdempotent ==
    /\ (CallDone /\ now = Call.at) =>
           Contents(RefreshAgain(now)) = Contents(api)
    /\ (CallDone /\ now = Call.at /\ Call.ran) =>
           Contents(RefreshAgain(now + api.refresh_interval)) = Contents(api)
    /\ (CallDone /\ now = Call.at /\ Call.ran /\ AllDelivered) =>
           Contents(api) = Contents(FirstRefresh)

(* a refresh after a failed one: the daily payload is stored over the one cached  *)
(* before, the hourly request fails, and a refresh called again sends requests    *)
C12_Witness ==
    /\ CallDone /\ now = Call.at /\ Call.ran
    /\ Delivered(Call.out.daily) /\ ~Delivered(Call.out.hourly)
    /\ Call.pre.daily.py # "None" /\ Call.stamp.daily > Call.pre.forecast_at
    /\ Len(api.daily.data) > 0
    /\ RefreshAgain(now).forecast_at = now
    /\ ~IsFresh(api, now)

(* ---------------- the claims about the period parser ---------------- *)
(* the payload the parser was given, its periods, and the records it returns *)
Parsed == api.forecast.py = "dict" /\ "properties" \in api.forecast.keys
Periods == api.forecast.periods
Records == get_forecast(api.daily)

(* a period with every field present and of the type NOAA documents *)
IsMapping(v) == v.py = "dict"
StartOk(p) == p.startTime.py = "str" /\ p.startTime.iso
PopOk(p) == IsMapping(p.probabilityOfPrecipitation)
WindOk(p) == p.windSpeed.py = "str" /\ Len(p.windSpeed.items) > 0
TempOk(p) == p.temperature.py \in {"int", "float"} /\ p.temperatureUnit.py = "str"
WellFormed(p) == IsMapping(p) /\ StartOk(p) /\ PopOk(p) /\ WindOk(p) /\ TempOk(p)

(* C13: when every period of the payload is well-formed, the parser returns one   *)
(* record per period, in the order of the payload.                                *)
C13_OneRecordPerPeriod ==
    (Parsed /\ \A i \in 1..Len(Periods) : WellFormed(Periods[i])) =>
        /\ Len(Records) = Len(Periods)
        /\ \A i \in 1..Len(Periods) : Records[i].number = Periods[i].number

(* three well-formed periods, three records *)
C13_Witness ==
    /\ Parsed /\ Len(Periods) = 3
    /\ \A i \in 1..3 : WellFormed(Periods[i])
    /\ Len(Records) = 3 /\ Records[3].number = 3

(* the fields other than the one a claim is about are as NOAA documents them *)
RestOk(p, field) ==
    /\ IsMapping(p)
    /\ (field = "startTime" \/ StartOk(p))
    /\ (field = "probabilityOfPrecipitation" \/ PopOk(p))
    /\ (field = "windSpeed" \/ WindOk(p))

(* probabilityOfPrecipitation missing, not a mapping with a value, or its value   *)
(* null or not an integer                                                         *)
BadPop(p) ==
    LET pop == p.probabilityOfPrecipitation
    IN  \/ ~IsMapping(pop)
        \/ "value" \notin pop.keys
        \/ pop.value.py # "int"

(* C15: a period whose probabilityOfPrecipitation is missing, is not a mapping    *)
(* with a value, or has a null or non-integer value gets precipitation            *)
(* probability 0, and it and the periods after it are still parsed.               *)
C15_PrecipitationDefaultsToZero ==
    (Parsed /\ \A i \in 1..Len(Periods) : RestOk(Periods[i], "probabilityOfPrecipitation")) =>
        /\ Len(Records) = Len(Periods)
        /\ \A i \in 1..Len(Records) :
               BadPop(Periods[i]) => Records[i].precipitation_probability = IntV(0)

(* the temperature unit names Fahrenheit *)
Fahrenheit(unit) == \E i \in 1..Len(unit.chars) : unit.chars[i] = "F"

C17_WindSpeed ==
    (Parsed /\ \A i \in 1..Len(Periods) : RestOk(Periods[i], "windSpeed")) =>
        /\ Len(Records) = Len(Periods)
        /\ \A i \in 1..Len(Records) :
               LET ws == Periods[i].windSpeed
                   got == Records[i].native_wind_speed
               IN  IF ws.py # "str" THEN got = NoneV
                   ELSE IF Len(ws.items) = 0 THEN got = NoneV
                   ELSE IF ws.items[1].t # "num" THEN got = NoneV
                   ELSE IF \E j \in 1..Len(ws.items) : ws.items[j] = Word("mph")
                        THEN got = speed_miph_to_mps(Float(ws.items[1].n * 1000)).value
                        ELSE got = Float(ws.items[1].n * 1000)

(* the periods whose extraction raises *)
Raising == {i \in 1..Len(Periods) : ParsePeriod(Periods[i], api.daily.forecast_at).raised}

(* C18: when the extraction of a period raises, the parse stops there: the result *)
(* is exactly the records of the periods before the first one that raised, and    *)
(* the parser still returns, so the payload and its parsed object are stored.     *)
C18_AbortKeepsPrefix ==
    (Parsed /\ Raising # {}) =>
        LET k == CHOOSE i \in Raising : \A j \in Raising : i <= j
        IN  /\ Len(Records) = k - 1
            /\ \A i \in 1..(k - 1) :
                   Records[i] = ParsePeriod(Periods[i], api.daily.forecast_at).forecast
            /\ api.daily.py = "DailyForecast" /\ api.daily.forecast_at = api.forecast_at

(* the second of three periods raises: only the first is returned *)
C18_Witness ==
    /\ Parsed /\ Len(Periods) = 3 /\ Raising = {2}
    /\ Len(Records) = 1 /\ Records[1].number = 1

(* ---------------- the claims about the client, continued ---------------- *)
(* C14: every record the client caches from a daily payload carries the time that *)
(* was handed to the parser with that payload, and the records one                *)
(* get_daily_forecasts() call returns all carry the same fetch time.              *)
C14_OneFetchedAt ==
    /\ api.daily.py # "None" =>
           \A i \in 1..Len(api.daily.data) :
               api.daily.data[i].last_api_update = hist.lastOkAt.daily
    /\ (CallDone /\ Call.op = "async_get_daily_forecasts" /\ Call.ret.py = "list") =>
           \A i, j \in 1..Len(Call.ret.items) :
               Call.ret.items[i].last_api_update = Call.ret.items[j].last_api_update

(* get_daily_forecasts() returns two records of a payload that a later refresh    *)
(* stored over an earlier one                                                     *)
C14_Witness ==
    /\ CallDone /\ Call.op = "async_get_daily_forecasts" /\ Call.ret.py = "list"
    /\ Len(Call.ret.items) = 2
    /\ Call.pre.daily.py # "None" /\ Call.pre.forecast_at < api.forecast_at
    /\ Call.ret.items[2].last_api_update = api.forecast_at

(* ---------------- the claims about the grid lookup ---------------- *)
Looked == lookup.state = "done"
HasProperties == "properties" \in lookup.grid.keys
HasSeries ==
    /\ HasProperties /\ lookup.grid.temperature.py = "dict"
    /\ "values" \in lookup.grid.temperature.keys
Series == lookup.grid.temperature.values
StartOf(i) == iso_to_float_time_and_delta(Series[i].validTime).start
EndOf(i) == StartOf(i) + iso_to_float_time_and_delta(Series[i].validTime).dt
Chronological == \A i, j \in 1..Len(Series) : i < j => StartOf(i) <= StartOf(j)
Begun == {i \in 1..Len(Series) : StartOf(i) <= lookup.when}
Covering == {i \in 1..Len(Series) : StartOf(i) <= lookup.when /\ lookup.when < EndOf(i)}

(* C19: for a chronological series and an instant inside one of its intervals     *)
(* [start, start + duration), the lookup returns the value of the last interval    *)
(* whose start is not after the instant; before the first start it returns None.   *)
C19_LastBegunInterval ==
    (Looked /\ lookup.when # 0 /\ HasSeries /\ Chronological) =>
        /\ Covering # {} =>
               /\ ~lookup.raised
               /\ lookup.result = Series[CHOOSE i \in Begun : \A j \in Begun : j <= i].value
        /\ Begun = {} => (~lookup.raised /\ lookup.result = NoneV)

(* C20: a lookup at a given instant raises only when the payload has no           *)
(* properties; when the quantity is absent, its series is empty or no interval     *)
(* covers the instant it returns None.                                             *)
C20_NullForMissingData ==
    (Looked /\ lookup.when # 0) =>
        /\ lookup.raised => ~HasProperties
        /\ (HasProperties /\ (~HasSeries \/ Covering = {})) =>
               (~lookup.raised /\ lookup.result = NoneV)

(* ---------------- claims about the noaa_utils functions ---------------- *)
Abs(n) == IF n < 0 THEN -n ELSE n
(* an int or float, or a string that float() accepts *)
Numeric(v) == v.py \in {"int", "float", "bigint"} \/ (v.py = "str" /\ PyFloat(v).ok)

(* C21: speed_miph_to_mps and speed_mps_to_miph never raise, whatever they are     *)
(* given: a number or a numeric string comes back converted (divided or multiplied *)
(* by 2.237), and a falsy or non-numeric value comes back as 0.0.                  *)
C21_SpeedNeverRaises ==
    lookup.state \in {"speed_miph_to_mps", "speed_mps_to_miph"} =>
        /\ ~lookup.raised
        /\ lookup.result.py = "float"
        /\ IF Falsy(lookup.arg) \/ ~Numeric(lookup.arg) THEN lookup.result = Float(0)
           ELSE LET m == PyFloat(SpeedNumber(lookup.arg)).milli
                    r == lookup.result.milli
                IN  IF lookup.state = "speed_miph_to_mps"
                    THEN Abs(r * 2237 - m * 1000) < 2237
                    ELSE Abs(r * 1000 - m * 2237) < 1000

(* C22: each temperature conversion returns floor(x * 100) / 100 of the exact      *)
(* converted value x, also where x is negative.                                    *)
C22_FloorOfExact ==
    /\ lookup.state = "convert_F_to_C" =>
           lookup.result.milli = (((lookup.arg.milli - 32000) * 5) \div 90) * 10
    /\ lookup.state = "convert_C_to_F" =>
           lookup.result.milli = ((lookup.arg.milli * 9 + 160000) \div 50) * 10

(* C23: a temperature converted from Fahrenheit to Celsius and back differs from   *)
(* the temperature started from by less than 0.1, above and below zero.            *)
C23_RoundTrip ==
    (lookup.state = "convert_C_to_F" /\ lookup.origin.py = "float") =>
        Abs(lookup.result.milli - lookup.origin.milli) < 100

(* a temperature below zero that did not come back as it was *)
C23_Witness ==
    /\ lookup.state = "convert_C_to_F" /\ lookup.origin.py = "float"
    /\ lookup.origin.milli < 0
    /\ lookup.result.milli # lookup.origin.milli

Factor(unit) == CASE unit = "H" -> 3600 [] unit = "M" -> 60 [] unit = "S" -> 1 [] OTHER -> 0

(* C24: iso_to_float_time_and_delta returns the start with n * 3600, n * 60 or n   *)
(* seconds for a suffix /PT<n>H, /PT<n>M or /PT<n>S; without a /PT suffix it       *)
(* returns the time before the first "/" with duration 0; a duration it returns is *)
(* never negative.                                                                 *)
C24_EpochWithDuration ==
    lookup.state = "iso_to_float_time_and_delta" =>
        LET a == lookup.arg
            r == lookup.result
        IN  /\ (a.iso /\ a.sep = "/PT" /\ PyInt(a.body).ok /\ a.unit \in {"H", "M", "S"}) =>
                   (~lookup.raised /\ r = [start |-> a.time, dt |-> PyInt(a.body).v * Factor(a.unit)])
            /\ (a.iso /\ a.sep # "/PT") =>
                   (~lookup.raised /\ r = [start |-> a.time, dt |-> 0])
            /\ ~lookup.raised => r.dt >= 0

(* C27: after any calls of set_refresh_interval the interval in force is the last  *)
(* value given, or 1800 when that value is smaller, so never below 1800; without   *)
(* a call it is 43200 seconds (12 hours).                                          *)
C27_EffectiveInterval ==
    /\ api.refresh_interval >= 1800
    /\ lookup.state = "set_refresh_interval" =>
           api.refresh_interval = (IF lookup.arg > 1800 THEN lookup.arg ELSE 1800)
    /\ lookup.state # "set_refresh_interval" => api.refresh_interval = 43200

(* a value of zero or below was the last one given *)
C27_Witness ==
    lookup.state = "set_refresh_interval" /\ lookup.arg <= 0 /\ api.refresh_interval = 1800

(* ---------------- claims about the client's life cycle ---------------- *)
(* C25: a client that has just been constructed caches nothing and is not all_ok,  *)
(* and the first call of refresh(), get_daily_forecasts() or                       *)
(* get_hourly_forecasts() sends the metadata request, whatever interval was set    *)
(* before it.                                                                      *)
C25_FirstUseFetches ==
    /\ hist.calls = 0 => (Cached(api) = Cached(NOAAApiForHA) /\ ~api.all_data_ok)
    /\ hist.calls = 1 =>
           (Call.op \in ClientOps /\ Call.reqs # <<>> /\ Head(Call.reqs) = "meta")

(* the first call, made after the interval was set to its floor and time went on *)
C25_Witness ==
    /\ hist.calls = 1 /\ CallDone /\ Call.op = "async_get_daily_forecasts"
    /\ Call.pre.refresh_interval = MIN_REFRESH_INTERVAL /\ Call.at > 0
    /\ Head(Call.reqs) = "meta"

(* metadata and the three payloads, raw and parsed, are cached *)
Present(a) ==
    /\ a.metadata.py # "None"
    /\ a.forecast.py # "None" /\ a.daily.py # "None"
    /\ a.forecast_hourly.py # "None" /\ a.hourly.py # "None"
    /\ a.forecast_grid_data.py # "None"

(* C26: whenever all_ok is true the metadata and the daily, hourly and grid        *)
(* payloads are cached and all_ok_at is the time of a cycle whose three payload    *)
(* requests all succeeded (the cycle just completed, or the one all_ok dates       *)
(* from); a payload is requested only once this cycle's metadata has arrived, and  *)
(* a client without metadata caches no payload.                                    *)
C26_StateMachine ==
    /\ api.all_data_ok =>
           /\ Present(api)
           /\ IF CallDone /\ Call.ran
              THEN AllDelivered /\ api.all_data_ok_at = Call.at
              ELSE Call.pre.all_data_ok /\ api.all_data_ok_at = Call.pre.all_data_ok_at
    /\ task.pc \in {"daily", "hourly", "grid"} =>
           /\ Truthy(api.metadata) /\ Delivered(Call.out.meta)
           /\ api.metadata = Call.out.meta.body
           /\ UrlKey(task.pc) \in api.metadata.urls
    /\ (\E i \in 1..Len(Call.reqs) : Call.reqs[i] # "meta") => Delivered(Call.out.meta)
    /\ api.metadata.py = "None" => Cached(api) = Cached(NOAAApiForHA)

(* all_ok after a second cycle that succeeded where the first had failed in part *)
C26_Witness ==
    /\ api.all_data_ok /\ CallDone /\ Call.ran /\ AllDelivered
    /\ ~Call.pre.all_data_ok /\ Call.pre.metadata.py # "None" /\ Call.pre.hourly.py = "None"
    /\ api.all_data_ok_at = Call.at /\ Call.at > 0

(* ---------------- claims about the update cycle ---------------- *)
(* metadata requests sent since the update cycle began *)
UpdateFetches == hist.fetches - hist.fetches0
(* the place of a proxy method among the awaits of _async_update_data *)
ProxyIndex(upd) ==
    CASE upd = "async_get_current_conditions" -> 1
      [] upd = "async_get_daily_forecast" -> 2
      [] upd = "async_get_hourly_forecast" -> 3

C29_CacheNotMonotone ==
    (CallDone /\ Delivered(Call.out.daily)) =>
        LET parsed == DailyForecast(Call.out.daily.body, Call.stamp.daily)
        IN  /\ api.daily = parsed
            /\ Call.op = "async_get_daily_forecasts" => Call.ret = List(get_forecast(parsed))
            /\ "properties" \notin Call.out.daily.body.keys => get_forecast(api.daily) = <<>>

(* records were cached, the new daily payload has none, and the cycle ends all_ok *)
C29_Witness ==
    /\ CallDone /\ Delivered(Call.out.daily) /\ Call.op = "async_get_daily_forecasts"
    /\ Call.pre.daily.py # "None" /\ Len(get_forecast(Call.pre.daily)) > 0
    /\ Call.ret = List(<<>>)
    /\ api.all_data_ok

(* the scan's stop condition on the i-th entry, and the first entry that trips it *)
Stops(i) == StartOf(i) >= lookup.when \/ EndOf(i) > lookup.when
FirstStop ==
    IF \E i \in 1..Len(Series) : Stops(i)
    THEN CHOOSE i \in 1..Len(Series) : Stops(i) /\ \A j \in 1..(i - 1) : ~Stops(j)
    ELSE Len(Series) + 1

(* C30: the scan goes through the series in order and ends at the first entry that *)
(* trips the stop condition; the value returned is that of the entry just before   *)
(* it (null when it is the first entry), never that of an entry after it, also     *)
(* when a later entry of a series out of order began at or before the instant.     *)
C30_ScanStops ==
    (Looked /\ ~lookup.raised) =>
        lookup.result = IF FirstStop = 1 THEN NoneV ELSE Series[FirstStop - 1].value

(* a later entry began and ended before the instant, and its value is not returned *)
C30_Witness ==
    /\ Looked /\ ~lookup.raised
    /\ \E j \in 1..Len(Series) :
          /\ j > FirstStop /\ ~Stops(j) /\ StartOf(j) <= lookup.when
          /\ Series[j].value # lookup.result

====
